---- MODULE Spec2Model ----
(***************************************************************************)
(* Model of floower-esp32.ino: the power watchdog, the deep-sleep          *)
(* scheduler, the task watchdog heartbeat and the deferred remote init.    *)
(*                                                                         *)
(* Time is millis() of the running process, in milliseconds.  Voltages are *)
(* in hundredths of a volt (3.4 V = 340).  One Loop step is one whole      *)
(* iteration of loop(); one Setup step is the whole of setup().            *)
(* The Floower and Remote classes are external to the sketch: what they    *)
(* report in an iteration is an input of that iteration.                   *)
(***************************************************************************)
EXTENDS Integers, Sequences, FiniteSets, TLC

\* ---- configuration of the sketch ----
deepSleepEnabled == TRUE
POWER_LOW_ENTER_THRESHOLD == 0
POWER_LOW_LEAVE_THRESHOLD == 0
POWER_DEAD_THRESHOLD == 340
REMOTE_INIT_TIMEOUT == 2000
DEEP_SLEEP_INACTIVITY_TIMEOUT == 60000
BATTERY_DEAD_WARNING_DURATION == 5000
PERIODIC_OPERATIONS_INTERVAL == 3000
WDT_TIMEOUT == 10
\* duration of the petal transition requested by the dead sequence of powerWatchDog()
DEAD_TRANSITION_DURATION == 2500

\* ---- bounds of the model ----
\* millis() values explored in one process lifetime
MaxTime == 8550
\* millis() values explored in one process lifetime by the long runs
LongTime == 64550
\* millis() values explored in one process lifetime by the runs under fairness
LiveTime == 10550
\* time that may pass from one reading of millis() in loop() to the next
Steps == {1000, 4000}
\* the same, for the long runs
LongSteps == {2000, 4000}
\* battery voltages the probe may report (3.3 V, 3.4 V, 3.7 V)
Voltages == {330, 340, 370}
\* battery voltages the probe may report in the runs under fairness (3.3 V, 3.7 V)
LiveVoltages == {330, 370}
\* battery voltages of a battery that is not dead
HealthyVoltages == {370}
\* petal open levels the actuation may report
OpenLevels == {0, 100}

VARIABLES
    pc,                     \* "boot" (cold start), "wakeup" (start after a touchpad wake up),
                            \* "ready" (setup done), "loop" (>= 1 iteration done),
                            \* "asleep" (deep sleep), "panic" (task watchdog expired)
    clock,                  \* millis() as last read
    batteryDead, batteryCharging, deepSleepTime, periodicOperationsTime, initRemoteTime,
    initRemoteOnStartup,    \* config.initRemoteOnStartup as loaded by configure()
    lowPowerMode,           \* floower.isLowPowerMode()
    colorRequest,           \* floower.setColor(color, mode, ms) issued by the last step
    petalsRequest,          \* floower.setPetalsOpenLevel(level, ms) issued by the last step
    lit, idle, petalsMoving, petalOpenLevel, connected,   \* as reported in the last iteration
    wdtLastReset,           \* millis() of esp_task_wdt_init / last esp_task_wdt_reset
    sample,                 \* the periodicOperation() of the last iteration, if any
    deadEvidence,           \* the voltage readings taken by the check that set batteryDead
    remoteInits,            \* number of remote.init(); remote.startAdvertising() executed
    initScheduledAt,        \* millis() at which setup() scheduled the remote init
    lowPowerCall,           \* floower.setLowPowerMode(b) issued by the last step: "true", "false", "none"
    batteryReport,          \* remote.setBatteryLevel(level, charging) issued by the last step
    events                  \* the steps of loop() the last iteration went through, in order

vars == << pc, clock, batteryDead, batteryCharging, deepSleepTime,
           periodicOperationsTime, initRemoteTime, initRemoteOnStartup, lowPowerMode,
           colorRequest, petalsRequest, lit, idle, petalsMoving, petalOpenLevel, connected,
           wdtLastReset, sample, deadEvidence, remoteInits, initScheduledAt,
           lowPowerCall, batteryReport, events >>

NoColor == << "none", "none", 0 >>
NoPetals == << -1, 0 >>
NoSample == [ran |-> FALSE, usb |-> FALSE, voltage |-> 0, prior |-> "Normal"]
NoReport == [sent |-> FALSE, voltage |-> 0, charging |-> FALSE]

\* PowerMode of the specification, derived from batteryDead and the low power flag
PowerMode(dead, low) == IF dead THEN "Dead" ELSE IF low THEN "LowPower" ELSE "Normal"

Mode == PowerMode(batteryDead, lowPowerMode)

\* as planDeepSleep, the timeout taken as the absolute deadline
planDeepSleepAbsolute(now, timeoutMs) == timeoutMs

\* planDeepSleep(timeoutMs) called when millis() reads now
planDeepSleep(now, timeoutMs) == now + timeoutMs

\* the boot check of setup(): is the battery dead, given isUSBPowered() and two readings
BootBatteryDead(usb, v1, v2) ==
    IF ~usb
    THEN IF v1 < POWER_DEAD_THRESHOLD THEN v2 < POWER_DEAD_THRESHOLD ELSE FALSE
    ELSE FALSE

\* the readings the boot check takes
BootReadings(usb, v1, v2) ==
    IF usb THEN << >>
    ELSE IF v1 < POWER_DEAD_THRESHOLD THEN << v1, v2 >> ELSE << v1 >>

\* millis() at the end of setup(): delay(50), and delay(500) before the re-verification
BootDuration(usb, v1) ==
    IF ~usb /\ v1 < POWER_DEAD_THRESHOLD THEN 50 + 500 ELSE 50

\* powerWatchDog(), the branch taken when the device is externally powered
onCharging(g, usb) ==
    [g EXCEPT !.batteryCharging = usb, !.lowPowerMode = FALSE, !.lowPowerCall = "false"]

\* as deadSequence, the deep sleep planned after the warning duration of the boot check
deadSequenceAfterWarning(g, usb, voltage, now) ==
    [g EXCEPT !.batteryCharging = usb,
              !.colorRequest = << "colorBlack", "TRANSITION", 2500 >>,
              !.petalsRequest = << 0, 2500 >>,
              !.deepSleepTime = planDeepSleep(now, BATTERY_DEAD_WARNING_DURATION),
              !.batteryDead = TRUE,
              !.deadEvidence = << voltage >>]

\* as deadSequence, without planDeepSleep(0)
deadSequenceNoSleepPlan(g, usb, voltage, now) ==
    [g EXCEPT !.batteryCharging = usb,
              !.colorRequest = << "colorBlack", "TRANSITION", 2500 >>,
              !.petalsRequest = << 0, 2500 >>,
              !.batteryDead = TRUE,
              !.deadEvidence = << voltage >>]

\* powerWatchDog(), the branch taken when the voltage is below POWER_DEAD_THRESHOLD
deadSequence(g, usb, voltage, now) ==
    [g EXCEPT !.batteryCharging = usb,
              !.colorRequest = << "colorBlack", "TRANSITION", 2500 >>,
              !.petalsRequest = << 0, 2500 >>,
              !.deepSleepTime = planDeepSleep(now, 0),
              !.batteryDead = TRUE,
              !.deadEvidence = << voltage >>]

\* as lowPowerHysteresis, the comparison with the enter threshold reversed
lowPowerHysteresisReversed(g, usb, voltage) ==
    IF ~g.lowPowerMode /\ voltage > POWER_LOW_ENTER_THRESHOLD
    THEN [g EXCEPT !.batteryCharging = usb, !.lowPowerMode = TRUE, !.lowPowerCall = "true"]
    ELSE IF g.lowPowerMode /\ voltage >= POWER_LOW_LEAVE_THRESHOLD
    THEN [g EXCEPT !.batteryCharging = usb, !.lowPowerMode = FALSE, !.lowPowerCall = "false"]
    ELSE [g EXCEPT !.batteryCharging = usb]

\* powerWatchDog(), the low power hysteresis
lowPowerHysteresis(g, usb, voltage) ==
    IF ~g.lowPowerMode /\ voltage < POWER_LOW_ENTER_THRESHOLD
    THEN [g EXCEPT !.batteryCharging = usb, !.lowPowerMode = TRUE, !.lowPowerCall = "true"]
    ELSE IF g.lowPowerMode /\ voltage >= POWER_LOW_LEAVE_THRESHOLD
    THEN [g EXCEPT !.batteryCharging = usb, !.lowPowerMode = FALSE, !.lowPowerCall = "false"]
    ELSE [g EXCEPT !.batteryCharging = usb]

\* as reportBattery, the level being forwarded only while charging
reportBatteryWhenCharging(g, usb, voltage) ==
    IF usb
    THEN [g EXCEPT !.batteryReport = [sent |-> TRUE, voltage |-> voltage, charging |-> usb]]
    ELSE g

\* powerWatchDog(), remote.setBatteryLevel(battery.level, batteryCharging) of the
\* reading just taken
reportBattery(g, usb, voltage) ==
    [g EXCEPT !.batteryReport = [sent |-> TRUE, voltage |-> voltage, charging |-> usb]]

\* as evaluateBattery, the dead battery test made before the external power test
evaluateBatteryDeadFirst(g, usb, voltage, now) ==
    IF voltage < POWER_DEAD_THRESHOLD
    THEN deadSequence(reportBattery(g, usb, voltage), usb, voltage, now)
    ELSE IF usb THEN onCharging(reportBattery(g, usb, voltage), usb)
    ELSE lowPowerHysteresis(reportBattery(g, usb, voltage), usb, voltage)

\* powerWatchDog() after its early return, with isUSBPowered() = usb and
\* readBatteryState().voltage = voltage
evaluateBattery(g, usb, voltage, now) ==
    IF usb THEN onCharging(reportBattery(g, usb, voltage), usb)
    ELSE IF voltage < POWER_DEAD_THRESHOLD
    THEN deadSequence(reportBattery(g, usb, voltage), usb, voltage, now)
    ELSE lowPowerHysteresis(reportBattery(g, usb, voltage), usb, voltage)

\* as powerWatchDog, a dead battery being evaluated again once external power is present
powerWatchDogRevive(g, usb, voltage, now) ==
    IF g.batteryDead /\ ~usb THEN g
    ELSE evaluateBattery([g EXCEPT !.batteryDead = FALSE], usb, voltage, now)

\* powerWatchDog() on the globals g
powerWatchDog(g, usb, voltage, now) ==
    IF g.batteryDead THEN g ELSE evaluateBattery(g, usb, voltage, now)

\* the timer tests of loop()
PeriodicDue(t, now) == t # 0 /\ t < now
\* as InitRemoteDue, the deadline not compared with the time
InitRemoteDueAtOnce(t, now) == t # 0
InitRemoteDue(t, now) == t # 0 /\ t < now
\* as SleepDue, a deadline equal to the time counting as passed
SleepDueAtDeadline(t, now, moving) == t # 0 /\ t <= now /\ ~moving
\* as SleepDue, the petals not being asked
SleepDueIgnoringPetals(t, now, moving) == t # 0 /\ t < now
SleepDue(t, now, moving) == t # 0 /\ t < now /\ ~moving

\* what the battery probe may report in an iteration: it is asked only by periodicOperation()
ProbeUsb(t, now) == IF PeriodicDue(t, now) THEN BOOLEAN ELSE {FALSE}
ProbeVoltages(voltages, t, now) ==
    IF PeriodicDue(t, now) THEN voltages ELSE {CHOOSE v \in voltages : TRUE}

\* the petals have time to finish a transition: with a Dead deadline at t they are
\* not reported moving later than settle after it
PetalsMayMove(dead, t, now, settle) == ~(dead /\ t # 0 /\ now > t + settle)

\* as loopEvents, the sleep deadline being tested before the periodic operation
loopEventsSleepFirst(periodic, initRemote, sleep) ==
    << "sleepCheck" >>
    \o (IF sleep THEN << "enterDeepSleep" >> ELSE << >>)
    \o (IF periodic THEN << "rearmPeriodic", "wdtReset", "powerWatchDog" >> ELSE << >>)
    \o << "initRemoteCheck" >>
    \o (IF initRemote THEN << "remoteInit" >> ELSE << >>)
    \o (IF sleep THEN << >> ELSE << "planInactivity" >>)

\* the steps one iteration of loop() goes through, in the order of the statements
loopEvents(periodic, initRemote, sleep) ==
    (IF periodic THEN << "rearmPeriodic", "wdtReset", "powerWatchDog" >> ELSE << >>)
    \o << "initRemoteCheck" >>
    \o (IF initRemote THEN << "remoteInit" >> ELSE << >>)
    \o << "sleepCheck" >>
    \o (IF sleep THEN << "enterDeepSleep" >> ELSE << "planInactivity" >>)

\* the inactivity condition of loop()
Inactive(charging, isLit, isIdle, level, isConnected) ==
    ~charging /\ ~isLit /\ isIdle /\ level = 0 /\ ~isConnected

\* as planInactivity, an armed deadline not being cancelled
planInactivityNoCancel(dead, t, inactive, now) ==
    IF deepSleepEnabled /\ ~dead
    THEN IF inactive
         THEN IF t = 0 THEN planDeepSleep(now, DEEP_SLEEP_INACTIVITY_TIMEOUT) ELSE t
         ELSE t
    ELSE t

\* as planInactivity, the block not being guarded by batteryDead
planInactivityWhenDead(dead, t, inactive, now) ==
    IF deepSleepEnabled
    THEN IF inactive
         THEN IF t = 0 THEN planDeepSleep(now, DEEP_SLEEP_INACTIVITY_TIMEOUT) ELSE t
         ELSE IF t # 0 THEN 0 ELSE t
    ELSE t

\* as planInactivity, the deadline being planned in every inactive iteration
planInactivityRearm(dead, t, inactive, now) ==
    IF deepSleepEnabled /\ ~dead
    THEN IF inactive
         THEN planDeepSleep(now, DEEP_SLEEP_INACTIVITY_TIMEOUT)
         ELSE IF t # 0 THEN 0 ELSE t
    ELSE t

\* "plan to enter deep sleep in inactivity": deepSleepTime after the block
planInactivity(dead, t, inactive, now) ==
    IF deepSleepEnabled /\ ~dead
    THEN IF inactive
         THEN IF t = 0 THEN planDeepSleep(now, DEEP_SLEEP_INACTIVITY_TIMEOUT) ELSE t
         ELSE IF t # 0 THEN 0 ELSE t
    ELSE t

Init ==
    /\ pc = "boot"
    /\ clock = 0
    /\ batteryDead = FALSE
    /\ batteryCharging = FALSE
    /\ deepSleepTime = 0
    /\ periodicOperationsTime = 0
    /\ initRemoteTime = 0
    /\ initRemoteOnStartup = FALSE
    /\ lowPowerMode = FALSE
    /\ colorRequest = NoColor
    /\ petalsRequest = NoPetals
    /\ lit = FALSE
    /\ idle = TRUE
    /\ petalsMoving = FALSE
    /\ petalOpenLevel = 0
    /\ connected = FALSE
    /\ wdtLastReset = 0
    /\ sample = NoSample
    /\ deadEvidence = << >>
    /\ remoteInits = 0
    /\ initScheduledAt = 0
    /\ lowPowerCall = "none"
    /\ batteryReport = NoReport
    /\ events = << >>

\* setup(), the battery probe reporting voltages of the set voltages
SetupIn(voltages) ==
    /\ pc \in {"boot", "wakeup"}
    /\ \E usb \in BOOLEAN, v1 \in voltages, v2 \in voltages, flag \in BOOLEAN :
        LET wasSleeping == deepSleepEnabled /\ pc = "wakeup"
            dead == BootBatteryDead(usb, v1, v2)
            now == BootDuration(usb, v1)
        IN  /\ wdtLastReset' = 0
            /\ initRemoteOnStartup' = flag
            /\ batteryCharging' = usb
            /\ batteryDead' = dead
            /\ deadEvidence' = IF dead THEN BootReadings(usb, v1, v2) ELSE << >>
            /\ clock' = now
            /\ IF dead
               THEN /\ deepSleepTime' = planDeepSleep(now, BATTERY_DEAD_WARNING_DURATION)
                    /\ lowPowerMode' = TRUE
                    /\ lowPowerCall' = "true"
                    /\ colorRequest' = << "colorRed", "FLASH", 1000 >>
                    /\ petalsRequest' = NoPetals
                    /\ UNCHANGED << initRemoteTime, periodicOperationsTime, initScheduledAt >>
               ELSE /\ petalsRequest' = IF ~wasSleeping THEN << 0, 100 >> ELSE NoPetals
                    /\ colorRequest' = NoColor
                    /\ initRemoteTime' = IF flag THEN now + REMOTE_INIT_TIMEOUT ELSE initRemoteTime
                    /\ initScheduledAt' = now
                    /\ periodicOperationsTime' = now + PERIODIC_OPERATIONS_INTERVAL
                    /\ lowPowerCall' = "none"
                    /\ UNCHANGED << deepSleepTime, lowPowerMode >>
    /\ pc' = "ready"
    /\ UNCHANGED << lit, idle, petalsMoving, petalOpenLevel, connected, sample, remoteInits,
                    batteryReport, events >>

\* one iteration of loop() before millis() passes horizon, begun d in steps after the
\* last one, the battery probe reporting voltages of the set voltages and the
\* petals settling within settle; enterDeepSleep() does not return
LoopIn(steps, voltages, horizon, settle) ==
    /\ pc \in {"ready", "loop"}
    /\ \E d \in steps, isLit \in BOOLEAN, isIdle \in BOOLEAN, moving \in BOOLEAN,
          level \in OpenLevels, isConnected \in BOOLEAN :
      \E usb \in ProbeUsb(periodicOperationsTime, clock + d),
         voltage \in ProbeVoltages(voltages, periodicOperationsTime, clock + d) :
        LET now == clock + d
            g0 == [batteryDead |-> batteryDead, batteryCharging |-> batteryCharging,
                   deepSleepTime |-> deepSleepTime, lowPowerMode |-> lowPowerMode,
                   colorRequest |-> NoColor, petalsRequest |-> NoPetals,
                   deadEvidence |-> deadEvidence,
                   lowPowerCall |-> "none", batteryReport |-> NoReport]
            periodic == PeriodicDue(periodicOperationsTime, now)
            g1 == IF periodic THEN powerWatchDog(g0, usb, voltage, now) ELSE g0
            initRemote == InitRemoteDue(initRemoteTime, now)
            sleep == SleepDue(g1.deepSleepTime, now, moving)
            inactive == Inactive(g1.batteryCharging, isLit, isIdle, level, isConnected)
        IN  /\ now <= horizon
            /\ now < wdtLastReset + WDT_TIMEOUT * 1000
            /\ moving => PetalsMayMove(g1.batteryDead, g1.deepSleepTime, now, settle)
            /\ clock' = now
            /\ lit' = isLit
            /\ idle' = isIdle
            /\ petalsMoving' = moving
            /\ petalOpenLevel' = level
            /\ connected' = isConnected
            /\ periodicOperationsTime' =
                   IF periodic THEN now + PERIODIC_OPERATIONS_INTERVAL ELSE periodicOperationsTime
            /\ wdtLastReset' = IF periodic THEN now ELSE wdtLastReset
            /\ sample' = IF periodic
                         THEN [ran |-> TRUE, usb |-> usb, voltage |-> voltage,
                               prior |-> PowerMode(batteryDead, lowPowerMode)]
                         ELSE NoSample
            /\ batteryDead' = g1.batteryDead
            /\ batteryCharging' = g1.batteryCharging
            /\ lowPowerMode' = g1.lowPowerMode
            /\ colorRequest' = g1.colorRequest
            /\ petalsRequest' = g1.petalsRequest
            /\ deadEvidence' = g1.deadEvidence
            /\ lowPowerCall' = g1.lowPowerCall
            /\ batteryReport' = g1.batteryReport
            /\ events' = loopEvents(periodic, initRemote, sleep)
            /\ initRemoteTime' = IF initRemote THEN 0 ELSE initRemoteTime
            /\ remoteInits' = IF initRemote THEN remoteInits + 1 ELSE remoteInits
            /\ IF sleep
               THEN /\ deepSleepTime' = 0
                    /\ pc' = "asleep"
               ELSE /\ deepSleepTime' = planInactivity(g1.batteryDead, g1.deepSleepTime, inactive, now)
                    /\ pc' = "loop"
    /\ UNCHANGED << initRemoteOnStartup, initScheduledAt >>

\* the globals of a freshly started process
Restart(start) ==
    /\ pc' = start
    /\ clock' = 0
    /\ batteryDead' = FALSE
    /\ batteryCharging' = FALSE
    /\ deepSleepTime' = 0
    /\ periodicOperationsTime' = 0
    /\ initRemoteTime' = 0
    /\ initRemoteOnStartup' = FALSE
    /\ lowPowerMode' = FALSE
    /\ colorRequest' = NoColor
    /\ petalsRequest' = NoPetals
    /\ lit' = FALSE
    /\ idle' = TRUE
    /\ petalsMoving' = FALSE
    /\ petalOpenLevel' = 0
    /\ connected' = FALSE
    /\ wdtLastReset' = 0
    /\ sample' = NoSample
    /\ deadEvidence' = << >>
    /\ remoteInits' = 0
    /\ initScheduledAt' = 0
    /\ lowPowerCall' = "none"
    /\ batteryReport' = NoReport
    /\ events' = << >>

\* the touchpad wakes the device from deep sleep: the sketch starts again from setup()
Wake ==
    /\ pc = "asleep"
    /\ Restart("wakeup")

\* the task watchdog expires when loop() does not reach esp_task_wdt_reset()
\* within WDT_TIMEOUT seconds of the last reset
WatchdogExpire ==
    /\ pc \in {"ready", "loop"}
    /\ \E d \in Steps \cup LongSteps : clock + d >= wdtLastReset + WDT_TIMEOUT * 1000
    /\ pc' = "panic"
    /\ clock' = wdtLastReset + WDT_TIMEOUT * 1000
    /\ UNCHANGED << batteryDead, batteryCharging, deepSleepTime,
                    periodicOperationsTime, initRemoteTime, initRemoteOnStartup, lowPowerMode,
                    colorRequest, petalsRequest, lit, idle, petalsMoving, petalOpenLevel,
                    connected, wdtLastReset, sample, deadEvidence, remoteInits,
                    initScheduledAt, lowPowerCall, batteryReport, events >>

\* the panic of the task watchdog restarts the chip
WatchdogRestart ==
    /\ pc = "panic"
    /\ Restart("boot")

Setup == SetupIn(Voltages)
Loop == LoopIn(Steps, Voltages, MaxTime, MaxTime)

Next == Setup \/ Loop \/ Wake \/ WatchdogExpire \/ WatchdogRestart

Spec == Init /\ [][Next]_vars

\* runs of a device whose battery is not dead, long enough for the inactivity timeout
SetupHealthy == SetupIn(HealthyVoltages)
LoopLong == LoopIn(LongSteps, HealthyVoltages, LongTime, LongTime)

NextLong == SetupHealthy \/ LoopLong \/ Wake

SpecLong == Init /\ [][NextLong]_vars

\* the runs under fairness: the Arduino core calls loop() again and again for as
\* long as the process lives, and the petals finish the closing transition of
\* the dead sequence within its duration
LoopLive == LoopIn(LongSteps, LiveVoltages, LiveTime, DEAD_TRANSITION_DURATION)

NextLive == SetupHealthy \/ LoopLive \/ Wake

SpecLive == Init /\ [][NextLive]_vars /\ WF_vars(LoopLive)

TypeOK ==
    /\ pc \in {"boot", "wakeup", "ready", "loop", "asleep", "panic"}
    /\ clock \in 0..LongTime
    /\ batteryDead \in BOOLEAN

\* the process that is running is the one that was running a step before
SameProcess == pc' \notin {"boot", "wakeup"}

(***************************************************************************)
(* Power mode                                                              *)
(***************************************************************************)

\* C1: once batteryDead is true (set by the boot check or by a periodic
\* sample), no step of the same process (periodic sample or loop iteration)
\* sets it back to false.
C1_DeadIsPermanent == [][(batteryDead /\ SameProcess) => batteryDead']_vars

\* C1 witness: a periodic operation ran while the battery was already Dead,
\* with external power present, and the battery is still Dead.
C1_Witness ==
    /\ pc = "loop"
    /\ sample.ran /\ sample.prior = "Dead" /\ sample.usb
    /\ batteryDead

\* C2 as stated: whenever a periodic operation ran with the probe reporting
\* external power, the mode is Normal after it, whatever the prior mode.
C2_Original == (sample.ran /\ sample.usb) => Mode = "Normal"

\* C2 amended: whenever a periodic operation ran in a mode other than Dead
\* with the probe reporting external power, the mode is Normal after it,
\* whatever the voltage; in mode Dead the sample is not evaluated.
C2_ExternalPowerNormal ==
    (sample.ran /\ sample.usb) =>
        IF sample.prior = "Dead"
        THEN Mode = "Dead"
        ELSE Mode = "Normal" /\ batteryCharging

\* C2 witness: a sample with external power and a voltage below the dead
\* threshold, taken in mode Normal, left the mode Normal.
C2_Witness ==
    /\ sample.ran /\ sample.usb /\ sample.prior = "Normal"
    /\ sample.voltage < POWER_DEAD_THRESHOLD
    /\ Mode = "Normal"

(***************************************************************************)
(* Deep sleep scheduling                                                   *)
(***************************************************************************)

\* the inactivity condition as loop() evaluated it in the last iteration
InactiveNow == Inactive(batteryCharging, lit, idle, petalOpenLevel, connected)

\* C3: when enterDeepSleep() is invoked for a deadline armed by inactivity
\* (the battery is not Dead), then in that iteration the device is not
\* externally powered, not lit, idle, closed and the remote is not connected.
C3_SleepOnlyWhenInactive == (pc = "asleep" /\ ~batteryDead) => InactiveNow

\* C4 as stated: at the end of every loop iteration the deadline is armed
\* exactly when the five inactivity conditions hold.
C4_Original == pc = "loop" => ((deepSleepTime # 0) <=> InactiveNow)

\* C4 amended: at the end of every loop iteration of a device whose battery
\* is not Dead, the deadline is armed exactly when the five inactivity
\* conditions hold (so an armed deadline is cancelled in the next iteration
\* in which one of them is false).
C4_ArmedIffInactive ==
    (pc = "loop" /\ ~batteryDead) => ((deepSleepTime # 0) <=> InactiveNow)

\* C4 witness: a deadline armed in an earlier iteration is still armed, the
\* battery not being Dead.
C4_Witness ==
    /\ pc = "loop" /\ ~batteryDead
    /\ deepSleepTime # 0
    /\ deepSleepTime < clock + DEEP_SLEEP_INACTIVITY_TIMEOUT
    /\ InactiveNow

C5_WatchdogFed ==
    pc \in {"ready", "loop", "panic"} => clock - wdtLastReset < WDT_TIMEOUT * 1000

\* the remote init was scheduled by setup()
InitScheduled == initRemoteOnStartup /\ periodicOperationsTime # 0

C7_DeadNeedsTwoReadings ==
    batteryDead =>
        /\ Len(deadEvidence) = 2
        /\ \A i \in 1..Len(deadEvidence) : deadEvidence[i] < POWER_DEAD_THRESHOLD

\* C8: a periodic sample without external power, in a mode other than Dead,
\* with a voltage below POWER_DEAD_THRESHOLD, requests the colour transition
\* to colorBlack and the petals to level 0, arms the sleep deadline at the
\* current time and makes the mode Dead, all in that iteration.
C8_DeadSequence ==
    (sample.ran /\ ~sample.usb /\ sample.prior # "Dead"
        /\ sample.voltage < POWER_DEAD_THRESHOLD)
    => /\ colorRequest = << "colorBlack", "TRANSITION", 2500 >>
       /\ petalsRequest = << 0, 2500 >>
       /\ deepSleepTime = clock
       /\ batteryDead /\ Mode = "Dead"

\* C8 witness: such a sample was taken in mode Normal, in an iteration in
\* which the device was otherwise inactive.
C8_Witness ==
    /\ pc = "loop"
    /\ sample.ran /\ ~sample.usb /\ sample.prior = "Normal"
    /\ sample.voltage < POWER_DEAD_THRESHOLD
    /\ InactiveNow

(***************************************************************************)
(* Thresholds, firing rule and precedence of the Dead path                 *)
(***************************************************************************)

\* C11: the low power thresholds form a hysteresis gap above the dead
\* threshold: LEAVE is strictly greater than ENTER and both are greater than
\* POWER_DEAD_THRESHOLD.
C11_HysteresisGap ==
    pc \in {"boot", "wakeup", "ready", "loop", "asleep", "panic"} =>
        /\ POWER_LOW_LEAVE_THRESHOLD > POWER_LOW_ENTER_THRESHOLD
        /\ POWER_LOW_ENTER_THRESHOLD > POWER_DEAD_THRESHOLD
        /\ POWER_LOW_LEAVE_THRESHOLD > POWER_DEAD_THRESHOLD

\* the periodic sample of the last iteration committed Dead
CommittedDead ==
    /\ sample.ran /\ ~sample.usb /\ sample.prior # "Dead"
    /\ sample.voltage < POWER_DEAD_THRESHOLD

\* the battery was found dead by a periodic sample of this process
DeadBySample == batteryDead /\ periodicOperationsTime # 0

\* the battery was found dead by the boot check of this process
DeadAtBoot == batteryDead /\ periodicOperationsTime = 0

C13_FiringRule ==
    /\ [][(pc \in {"ready", "loop"} /\ pc' = "asleep")
           => /\ deepSleepTime # 0
              /\ deepSleepTime < clock'
              /\ ~petalsMoving'
              /\ deepSleepTime' = 0]_vars
    /\ [][(batteryDead /\ pc \in {"ready", "loop"} /\ pc' \in {"loop", "asleep"}
            /\ petalsMoving')
           => pc' = "loop" /\ deepSleepTime' = deepSleepTime /\ deepSleepTime # 0]_vars

\* C13 witness: the process suspended on the deadline of a periodic Dead
\* commit, after an iteration in which that deadline had passed.
C13_Witness ==
    /\ pc = "asleep" /\ DeadBySample
    /\ deepSleepTime = 0 /\ ~petalsMoving
    /\ ~sample.ran

\* C14: the periodic sample that commits Dead replaces the deadline by the
\* immediate one, and from then on no iteration that stays awake cancels or
\* moves the deadline, whatever the actuation and the remote report.
C14_DeadTakesPrecedence ==
    /\ [][(~batteryDead /\ pc \in {"ready", "loop"} /\ batteryDead' /\ SameProcess)
           => deepSleepTime' = clock']_vars
    /\ [][(batteryDead /\ pc \in {"ready", "loop"} /\ pc' = "loop")
           => deepSleepTime' = deepSleepTime /\ deepSleepTime # 0]_vars

\* C14 witness: after a periodic Dead commit the deadline is still armed at
\* the end of a later iteration in which the device was lit, not idle, open
\* and connected.
C14_Witness ==
    /\ pc = "loop" /\ DeadBySample
    /\ deepSleepTime # 0 /\ deepSleepTime < clock
    /\ lit /\ ~idle /\ petalOpenLevel # 0 /\ connected


\* ---------------------------------------------------------------------------
\* Order of one iteration, low power calls and battery reports
\* ---------------------------------------------------------------------------

\* the place of a step in the order of the statements of loop()
EventRank(e) ==
    CASE e = "rearmPeriodic"   -> 1
      [] e = "wdtReset"        -> 2
      [] e = "powerWatchDog"   -> 3
      [] e = "initRemoteCheck" -> 4
      [] e = "remoteInit"      -> 5
      [] e = "sleepCheck"      -> 6
      [] e = "enterDeepSleep"  -> 7
      [] e = "planInactivity"  -> 8
      [] OTHER                 -> 0

\* the steps of the last iteration, as a set
EventSet == { events[i] : i \in DOMAIN events }

C17_Original ==
    sample.ran => batteryReport.sent /\ batteryReport.charging = sample.usb

\* C17: a periodic sample forwards the level of its reading and the external
\* power flag to the remote exactly when it is taken while not Dead, the sample
\* that commits Dead included; a sample taken while Dead forwards nothing
C17_ReportUnlessDead ==
    /\ batteryReport.sent <=> (sample.ran /\ sample.prior # "Dead")
    /\ batteryReport.sent =>
          batteryReport.charging = sample.usb /\ batteryReport.voltage = sample.voltage

\* C17 witness: the sample that commits Dead has reported to the remote
C17_Witness == CommittedDead /\ batteryReport.sent /\ ~batteryReport.charging


\* ---------------------------------------------------------------------------
\* The Dead shutdown reaches deep sleep
\* ---------------------------------------------------------------------------

\* the longest time from one reading of millis() in loop() to the next
MaxStep == CHOOSE d \in LongSteps : \A e \in LongSteps : e <= d

\* the sample committed Dead early enough for the explored lifetime to hold the
\* closing transition and one more iteration
CommittedDeadInTime ==
    CommittedDead /\ clock + DEAD_TRANSITION_DURATION + MaxStep <= LiveTime

\* C18: after a periodic sample commits Dead the device suspends, as long as
\* loop() keeps being called, the clock advances and the petals stop moving;
\* until then the immediate deadline stays armed
C18_DeadLeadsToSleep ==
    /\ CommittedDeadInTime ~> pc = "asleep"
    /\ [](DeadBySample /\ pc = "loop" => deepSleepTime # 0)

\* C18 witness: the device has suspended in an iteration after the one that
\* committed Dead, one that ran the periodic operation again
C18_Witness == pc = "asleep" /\ DeadBySample /\ sample.ran /\ sample.prior = "Dead"


\* ---------------------------------------------------------------------------
\* Dead at boot, and reachability of LowPower
\* ---------------------------------------------------------------------------

C20_LowPowerReachable ==
    (sample.ran /\ ~sample.usb /\ sample.prior = "Normal"
        /\ sample.voltage = POWER_DEAD_THRESHOLD) => Mode = "LowPower"

====
